---- MODULE Spec2Model ----
(***************************************************************************)
(* flamedisx: the credible-interval bound estimator of flamedisx/bounds.py *)
(* (bayes_bounds, bayes_bounds_batched, bayes_bounds_priors and the        *)
(* binomial / normal / skew-normal CDF estimators).                        *)
(*                                                                         *)
(* Numbers.  A probability mass is a non-negative integer (the float mass  *)
(* times a positive scale that is common to all points of one event) or    *)
(* NaNMass.  A CDF entry is an exact fraction [n, d]; d = 0 stands for the *)
(* float NaN (0/0, or anything computed from a NaN).  Every comparison     *)
(* with a NaN is false, as in IEEE arithmetic.                             *)
(***************************************************************************)
EXTENDS Integers, Sequences, FiniteSets, TLC

(***************************************************************************)
(* Bounds of the model.                                                    *)
(***************************************************************************)
NEvents == 2        \* events (dataframe rows) handed to one call
SupLen == 3         \* points in one event's support
MaxLo == 1          \* a support starts at 0..MaxLo
PDen == 4           \* probabilities are multiples of 1/PDen
ResRows == 2        \* rows of the reservoir the priors are built from
MaxQuanta == 2      \* the random draws of a simulation are -1..MaxQuanta
MaxEnergy == 3      \* simulated energies are 1..MaxEnergy

\* np.histogram's default number of equal-width bins
HistBins == 10

Events == 1..NEvents
\* the largest value a support holds: event e's support starts at lo + e - 1
NMax == MaxLo + NEvents + SupLen - 2

(***************************************************************************)
(* Arithmetic helpers.                                                     *)
(***************************************************************************)
RECURSIVE Pow(_, _)
Pow(b, e) == IF e = 0 THEN 1 ELSE b * Pow(b, e - 1)

RECURSIVE Choose(_, _)
Choose(n, k) == IF k = 0 THEN 1 ELSE (Choose(n, k - 1) * (n - k + 1)) \div k

SetMax(S) == CHOOSE x \in S : \A y \in S : y <= x
SetMin(S) == CHOOSE x \in S : \A y \in S : x <= y
Abs(x) == IF x < 0 THEN -x ELSE x
MinOf(a, b) == IF a <= b THEN a ELSE b

NaNMass == -1
NaN == [n |-> 0, d |-> 0]
IsNaN(x) == x.d = 0
\* a < b on floats: false as soon as one side is NaN
Lt(a, b) ==
    /\ a.d > 0
    /\ b.d > 0
    /\ IF a.d = b.d THEN a.n < b.n ELSE a.n * b.d < b.n * a.d
Prob(k) == [n |-> k, d |-> PDen]
\* 1. - bounds_prob
OneMinus(p) == [n |-> p.d - p.n, d |-> p.d]

\* the sequence s with all its elements computed (TLC keeps a function
\* [i \in 1..n |-> e] unevaluated and computes e again at every use)
Settled(s) == s \o <<>>

\* float product: NaN times anything is NaN
MassMul(a, b) == IF a = NaNMass \/ b = NaNMass THEN NaNMass ELSE a * b

\* np.sum over one event's masses: NaN as soon as one mass is NaN
RECURSIVE PrefixSum(_, _)
PrefixSum(s, i) == IF i = 0 THEN 0 ELSE s[i] + PrefixSum(s, i - 1)
np_sum(s) ==
    IF \E i \in 1..Len(s) : s[i] = NaNMass THEN NaNMass ELSE PrefixSum(s, Len(s))

\* np.shape of a rectangular array given as a sequence of rows
np_shape(a) == IF Len(a) = 0 THEN <<0>> ELSE <<Len(a), Len(a[1])>>

(***************************************************************************)
(* scipy / numpy functions the estimators call.                            *)
(***************************************************************************)
\* stats.binom.pmf(k, n, p) with p = pn/PDen, times PDen^NMax
binom_pmf(k, n, pn) ==
    IF k < 0 \/ k > n THEN 0
    ELSE Choose(n, k) * Pow(pn, k) * Pow(PDen - pn, n - k) * Pow(PDen, NMax - n)

\* 1000 * exp(-d^2 / (2 sigma^2)) / sigma for sigma = 2, 4 and d = 0..7
ExpTable ==
    [s \in {2, 4} |->
        IF s = 2 THEN <<500, 441, 303, 162, 68, 22, 6, 1>>
                 ELSE <<250, 242, 221, 189, 152, 114, 81, 54>>]

\* stats.norm.pdf(x, mu, sigma), fixed point (the factor 1/sqrt(2 pi) is
\* common to every point and left in the scale)
norm_pdf(x, mu, sigma) == ExpTable[sigma][Abs(x - mu) + 1]

\* 1000 * (1 + erf(t / sqrt 2)) for t = q / 4, q = -12..12
ErfTable ==
    <<3, 6, 12, 24, 46, 80, 134, 211, 317, 453, 617, 803, 1000, 1197, 1383,
      1547, 1683, 1789, 1866, 1920, 1954, 1976, 1988, 1994, 1997>>

\* the nested skew_normal(x, mu, sigma, alpha) of bayes_bounds_skew_normal
skew_normal(x, mu, sigma, alpha) ==
    ExpTable[sigma][Abs(x - mu) + 1]
        * ErfTable[((alpha * (x - mu) * 4) \div sigma) + 13]

\* np.histogram(data): HistBins equal bins over [min, max]; an empty sample
\* is histogrammed over [0, 1], a single-valued one over [v - 0.5, v + 0.5].
\* Edges are kept doubled (lo2, hi2) so that they stay integers.
np_histogram(data) ==
    LET vals == {data[i] : i \in 1..Len(data)}
        lo2 == IF vals = {} THEN 0
               ELSE IF SetMin(vals) = SetMax(vals) THEN 2 * SetMin(vals) - 1
               ELSE 2 * SetMin(vals)
        hi2 == IF vals = {} THEN 2
               ELSE IF SetMin(vals) = SetMax(vals) THEN 2 * SetMax(vals) + 1
               ELSE 2 * SetMax(vals)
        bin(v) == IF 2 * v = hi2 THEN HistBins
                  ELSE (((2 * v - lo2) * HistBins) \div (hi2 - lo2)) + 1
    IN  [hist |-> [b \in 1..HistBins |->
                      Cardinality({i \in 1..Len(data) : bin(data[i]) = b})],
         lo2 |-> lo2, hi2 |-> hi2]

\* stats.rv_histogram(hist): the density is hist / (sum * width); with an
\* empty sample that is 0/0.  The positive factor 1 / (sum * width) is
\* common to all bins and left in the scale.
rv_histogram(h) ==
    LET total == PrefixSum(h.hist, HistBins)
    IN  [hpdf |-> [b \in 1..HistBins |-> IF total = 0 THEN NaNMass ELSE h.hist[b]],
         lo2 |-> h.lo2, hi2 |-> h.hi2]

\* rv_histogram.pdf(x): 0 outside [lo, hi] and at hi itself (searchsorted
\* side='right' lands on the zero padding), else the density of x's bin
rv_pdf(rv, x) ==
    IF 2 * x < rv.lo2 \/ 2 * x >= rv.hi2 THEN 0
    ELSE rv.hpdf[(((2 * x - rv.lo2) * HistBins) \div (rv.hi2 - rv.lo2)) + 1]

(***************************************************************************)
(* The estimators.                                                         *)
(***************************************************************************)
\* pdf / np.sum(pdf) followed by np.cumsum
cumsum_normalised(pdf) ==
    LET total == np_sum(pdf)
    IN  Settled([i \in 1..Len(pdf) |->
            IF total = NaNMass \/ total = 0 THEN NaN
            ELSE [n |-> PrefixSum(pdf, i), d |-> total]])

\* prior(x) falling back to 1 as soon as the density vanishes somewhere
prior_any_zero(prior_pdf, x) ==
    IF prior_pdf = <<>> THEN [i \in 1..Len(x) |-> 1]
    ELSE IF \E i \in 1..Len(x) : rv_pdf(prior_pdf[1], x[i]) = 0
         THEN [i \in 1..Len(x) |-> 1]
    ELSE Settled([i \in 1..Len(x) |-> rv_pdf(prior_pdf[1], x[i])])

\* the nested prior(x) of bayes_bounds_binomial; prior_pdf = <<>> is None
prior(prior_pdf, x) ==
    IF prior_pdf = <<>> THEN [i \in 1..Len(x) |-> 1]
    ELSE IF np_sum([i \in 1..Len(x) |-> rv_pdf(prior_pdf[1], x[i])]) = 0
         THEN [i \in 1..Len(x) |-> 1]
    ELSE Settled([i \in 1..Len(x) |-> rv_pdf(prior_pdf[1], x[i])])

binomial_pdfs(supports, rvs_binom, ns_binom, ps_binom, prior_pdf) ==
    [e \in 1..Len(supports) |->
        LET factor == prior(prior_pdf, supports[e])
        IN  Settled([i \in 1..Len(supports[e]) |->
                MassMul(binom_pmf(rvs_binom[e][i], ns_binom[e][i], ps_binom[e][i]),
                        factor[i])])]

\* bayes_bounds_binomial: [err, cdfs]
bayes_bounds_binomial(supports, rvs_binom, ns_binom, ps_binom, prior_pdf) ==
    IF ~(np_shape(rvs_binom) = np_shape(ns_binom)
         /\ np_shape(ns_binom) = np_shape(ps_binom)
         /\ np_shape(ps_binom) = np_shape(supports))
    THEN [err |-> "AssertionError", cdfs |-> <<>>]
    ELSE [err |-> "none",
          cdfs |-> LET pdfs == binomial_pdfs(supports, rvs_binom, ns_binom,
                                             ps_binom, prior_pdf)
                   IN  Settled([e \in 1..Len(pdfs) |-> cumsum_normalised(pdfs[e])])]

\* bayes_bounds_normal: [err, cdfs]
bayes_bounds_normal(supports, rvs_normal, mus_normal, sigmas_normal) ==
    IF ~(np_shape(rvs_normal) = np_shape(mus_normal)
         /\ np_shape(mus_normal) = np_shape(sigmas_normal)
         /\ np_shape(sigmas_normal) = np_shape(supports))
    THEN [err |-> "AssertionError", cdfs |-> <<>>]
    ELSE [err |-> "none",
          cdfs |-> Settled([e \in 1..Len(rvs_normal) |->
                      cumsum_normalised(Settled(
                          [i \in 1..Len(rvs_normal[e]) |->
                              norm_pdf(rvs_normal[e][i], mus_normal[e][i],
                                       sigmas_normal[e][i])]))])]

\* bayes_bounds_skew_normal: [err, cdfs].  The shape assertion leaves
\* alphas_skew_normal out; zip stops at the shortest of its arguments, and
\* a row of one alpha broadcasts over the event's points.
bayes_bounds_skew_normal(supports, rvs_skew_normal, mus_skew_normal, sigmas_skew_normal, alphas_skew_normal) ==
    IF ~(np_shape(rvs_skew_normal) = np_shape(mus_skew_normal)
         /\ np_shape(mus_skew_normal) = np_shape(sigmas_skew_normal)
         /\ np_shape(sigmas_skew_normal) = np_shape(supports))
    THEN [err |-> "AssertionError", cdfs |-> <<>>]
    ELSE IF \E e \in 1..MinOf(Len(rvs_skew_normal), Len(alphas_skew_normal)) :
                Len(alphas_skew_normal[e]) \notin {1, Len(rvs_skew_normal[e])}
    THEN [err |-> "ValueError", cdfs |-> <<>>]
    ELSE [err |-> "none",
          cdfs |-> Settled(
                   [e \in 1..MinOf(Len(rvs_skew_normal), Len(alphas_skew_normal)) |->
                      cumsum_normalised(Settled(
                          [i \in 1..Len(rvs_skew_normal[e]) |->
                              skew_normal(rvs_skew_normal[e][i],
                                          mus_skew_normal[e][i],
                                          sigmas_skew_normal[e][i],
                                          IF Len(alphas_skew_normal[e]) = 1
                                          THEN alphas_skew_normal[e][1]
                                          ELSE alphas_skew_normal[e][i])]))])]

(***************************************************************************)
(* Bound extraction.                                                       *)
(***************************************************************************)
\* lower_lim taking the first index ([0]) where the code takes the last ([-1])
lower_lim_first(support, cdf, bounds_prob) ==
    LET where == {i \in 1..Len(cdf) : Lt(cdf[i], bounds_prob)}
    IN  IF where # {} THEN support[SetMin(where)] ELSE support[1]

\* lower_lim falling back to support[-1]
lower_lim_fallback_last(support, cdf, bounds_prob) ==
    LET where == {i \in 1..Len(cdf) : Lt(cdf[i], bounds_prob)}
    IN  IF where # {} THEN support[SetMax(where)] ELSE support[Len(support)]

\* support[np.where(cdf < bounds_prob)[0][-1]], else support[0]
lower_lim(support, cdf, bounds_prob) ==
    LET where == {i \in 1..Len(cdf) : Lt(cdf[i], bounds_prob)}
    IN  IF where # {} THEN support[SetMax(where)] ELSE support[1]

\* upper_lim comparing with bounds_prob where the code has 1. - bounds_prob
upper_lim_same_tail(support, cdf, bounds_prob) ==
    LET where == {i \in 1..Len(cdf) : Lt(bounds_prob, cdf[i])}
    IN  IF where # {} THEN support[SetMin(where)] ELSE support[Len(support)]

\* upper_lim with >= where the code has >
upper_lim_ge(support, cdf, bounds_prob) ==
    LET where == {i \in 1..Len(cdf) :
                     ~IsNaN(cdf[i]) /\ ~Lt(cdf[i], OneMinus(bounds_prob))}
    IN  IF where # {} THEN support[SetMin(where)] ELSE support[Len(support)]

\* support[np.where(cdf > 1. - bounds_prob)[0][0]], else support[-1]
upper_lim(support, cdf, bounds_prob) ==
    LET where == {i \in 1..Len(cdf) : Lt(OneMinus(bounds_prob), cdf[i])}
    IN  IF where # {} THEN support[SetMin(where)] ELSE support[Len(support)]

\* np.argmin(np.abs(cdf - 0.5)): the first NaN if there is one, else the
\* first index of the smallest |cdf - 0.5| = |2n - d| / 2d
np_argmin_abs_half(cdf) ==
    LET nans == {i \in 1..Len(cdf) : IsNaN(cdf[i])}
        dev(i) == [n |-> Abs(2 * cdf[i].n - cdf[i].d), d |-> 2 * cdf[i].d]
    IN  IF nans # {} THEN SetMin(nans)
        ELSE SetMin({i \in 1..Len(cdf) :
                        \A j \in 1..Len(cdf) : ~Lt(dev(j), dev(i))})

\* mle_lim giving the position found, not the support value at it
mle_lim_index(support, cdf) == np_argmin_abs_half(cdf)

\* support[np.argmin(np.abs(cdf - 0.5))]
mle_lim(support, cdf) == support[np_argmin_abs_half(cdf)]

(***************************************************************************)
(* State.                                                                  *)
(***************************************************************************)
VARIABLES
    supports,     \* one ascending support per event
    bounds_prob,  \* the credible probability, a fraction [n, d]
    bound_type,   \* the distribution kind the caller passes
    kwargs,       \* the distribution parameter arrays (**kwargs)
    reservoir,    \* per batch, rows <<value of the prior dimension, value of the
                  \* second filter dimension>>
    source,       \* source.prior_PDFs_LB, source.prior_PDFs_UB, source.batch_size
    df,           \* the columns in_dim + '_min', '_mle', '_max'; <<>> = no such column
    last,         \* the last call: what was asked, how it ended, the CDFs it computed
    model_blocks, \* the chain of blocks of the source being simulated
    pending,      \* the position in model_blocks of the next block to simulate
    simulated,    \* the blocks whose simulate was invoked, in order of invocation
    requested,    \* the model functions asked for through gimme_numpy, in order
    d,            \* the simulated events: one sequence per column, <<>> = no such column
    locals        \* the quanta counts _simulate holds in local names, <<>> = unbound

vars == <<supports, bounds_prob, bound_type, kwargs, reservoir, source, df, last,
          model_blocks, pending, simulated, requested, d, locals>>

BoundKinds == {"lower", "upper", "mle", "median"}
BoundTypes == {"binomial", "normal", "skew_normal", "poisson"}
Sigmas == {2, 4}
Alphas == {-1, 0, 1}

\* an array of shape (rows, cols) holding v in every point
Full(v, rows, cols) == [e \in 1..rows |-> [i \in 1..cols |-> v]]

\* event e is bounded over lo + e - 1, lo + e, ...
SupportsFrom(lo) == [e \in Events |-> [i \in 1..SupLen |-> lo + e + i - 2]]

\* a parameter array of the right shape, or (short) with one event too few
Shaped(arr, short) == IF short THEN SubSeq(arr, 1, Len(arr) - 1) ELSE arr

NoCall == [op |-> "none", bound |-> "none", batch |-> 0, err |-> "none",
           cdfs |-> <<>>, cdfs_no_prior |-> <<>>]
\* a dataframe of index rows that has none of the three bound columns yet
NoColumns == [index |-> NEvents, min |-> <<>>, mle |-> <<>>, max |-> <<>>]
NoEvents == [energy |-> <<>>, ions_produced |-> <<>>, ion_produced |-> <<>>,
             electrons_produced |-> <<>>, photons_produced |-> <<>>]
NoLocals == [nq_actual |-> <<>>, nex |-> <<>>, n_ex |-> <<>>]
\* no simulation is run
NoSimulation ==
    /\ model_blocks = <<>>
    /\ pending = 1
    /\ simulated = <<>>
    /\ requested = <<>>
    /\ d = NoEvents
    /\ locals = NoLocals
NoPriors == [prior_PDFs_LB |-> <<>>, prior_PDFs_UB |-> <<>>, batch_size |-> NEvents]

\* which parameter array, if any, has a shape other than the supports'
Defects == {"none", "rvs", "second", "third"}

\* a binomial block: the observed count k is the outcome, the candidate
\* values of the support are the numbers of trials, pn / PDen the success
\* probability
BinomialInputs ==
    \E lo \in 0..MaxLo, k \in 0..NMax, pn \in {1, PDen - 1}, bad \in Defects :
        /\ supports = SupportsFrom(lo)
        /\ bound_type = "binomial"
        /\ kwargs = [rvs |-> Shaped(Full(k, NEvents, SupLen), bad = "rvs"),
                     ns_or_mus |-> Shaped(SupportsFrom(lo), bad = "second"),
                     ps_or_sigmas |-> Shaped(Full(pn, NEvents, SupLen), bad = "third"),
                     alphas |-> <<>>,
                     prior_pdf |-> <<>>]

\* a normal block: the observed signal k, the candidate values as means
NormalInputs ==
    \E lo \in 0..MaxLo, k \in 0..NMax, sigma \in Sigmas, bad \in Defects :
        /\ supports = SupportsFrom(lo)
        /\ bound_type = "normal"
        /\ kwargs = [rvs |-> Shaped(Full(k, NEvents, SupLen), bad = "rvs"),
                     ns_or_mus |-> Shaped(SupportsFrom(lo), bad = "second"),
                     ps_or_sigmas |-> Shaped(Full(sigma, NEvents, SupLen), bad = "third"),
                     alphas |-> <<>>,
                     prior_pdf |-> <<>>]

\* a skew-normal block; the skew array may also come with one event too
\* few ("alphas") or with one skew per event ("alpha_column")
SkewNormalInputs ==
    \E lo \in 0..MaxLo, k \in 0..NMax, alpha \in Alphas,
       bad \in Defects \cup {"alphas", "alpha_column"} :
        /\ supports = SupportsFrom(lo)
        /\ bound_type = "skew_normal"
        /\ kwargs = [rvs |-> Shaped(Full(k, NEvents, SupLen), bad = "rvs"),
                     ns_or_mus |-> Shaped(SupportsFrom(lo), bad = "second"),
                     ps_or_sigmas |-> Shaped(Full(4, NEvents, SupLen), bad = "third"),
                     alphas |-> IF bad = "alpha_column" THEN Full(alpha, NEvents, 1)
                                ELSE Shaped(Full(alpha, NEvents, SupLen), bad = "alphas"),
                     prior_pdf |-> <<>>]

\* a distribution kind the module does not know
OtherInputs ==
    \E lo \in 0..MaxLo, k \in 0..NMax :
        /\ supports = SupportsFrom(lo)
        /\ bound_type = "poisson"
        /\ kwargs = [rvs |-> Full(k, NEvents, SupLen),
                     ns_or_mus |-> SupportsFrom(lo),
                     ps_or_sigmas |-> Full(1, NEvents, SupLen),
                     alphas |-> <<>>,
                     prior_pdf |-> <<>>]

Init ==
    /\ BinomialInputs \/ NormalInputs \/ SkewNormalInputs \/ OtherInputs
    /\ bounds_prob \in {Prob(k) : k \in 0..PDen}
    /\ reservoir = <<>>
    /\ source = NoPriors
    /\ df = NoColumns
    /\ last = NoCall
    /\ NoSimulation

(***************************************************************************)
(* bayes_bounds                                                            *)
(***************************************************************************)
\* bayes_bounds without its first assertion
BoundValidAny(bound) == TRUE

BoundValid(bound) == bound \in {"upper", "lower", "mle"}
BoundTypeValid(btype) == btype \in {"binomial", "normal"}

\* the estimator bayes_bounds dispatches to, called with **kwargs
EstimatorCdfs(btype) ==
    IF btype = "binomial"
    THEN bayes_bounds_binomial(supports, kwargs.rvs, kwargs.ns_or_mus,
                               kwargs.ps_or_sigmas, kwargs.prior_pdf)
    ELSE bayes_bounds_normal(supports, kwargs.rvs, kwargs.ns_or_mus,
                             kwargs.ps_or_sigmas)

\* zip(supports, cdfs) stops at the shorter of the two
ZipLen(a, b) == MinOf(Len(a), Len(b))

lower_lims(sups, cdfs, p) ==
    Settled([e \in 1..ZipLen(sups, cdfs) |-> lower_lim(sups[e], cdfs[e], p)])
upper_lims(sups, cdfs, p) ==
    Settled([e \in 1..ZipLen(sups, cdfs) |-> upper_lim(sups[e], cdfs[e], p)])
mles(sups, cdfs) ==
    Settled([e \in 1..ZipLen(sups, cdfs) |-> mle_lim(sups[e], cdfs[e])])

Called(op, bound, err, cdfs) ==
    [op |-> op, bound |-> bound, batch |-> 0, err |-> err, cdfs |-> cdfs,
     cdfs_no_prior |-> <<>>]

\* a dataframe holding the one column only
df_setitem_alone(column, values) == [NoColumns EXCEPT ![column] = values]
\* df[in_dim + '_min'] = values, likewise '_max' and '_mle'
df_setitem(column, values) == [df EXCEPT ![column] = values]

bayes_bounds(bound) ==
    IF ~BoundValid(bound) \/ ~BoundTypeValid(bound_type)
    THEN /\ last' = Called("bayes_bounds", bound, "AssertionError", <<>>)
         /\ df' = df
    ELSE
    \E est \in {EstimatorCdfs(bound_type)} :
        IF est.err # "none"
        THEN /\ last' = Called("bayes_bounds", bound, est.err, <<>>)
             /\ df' = df
        ELSE /\ last' = Called("bayes_bounds", bound, "none", est.cdfs)
             /\ df' = CASE bound = "lower" ->
                             df_setitem("min", lower_lims(supports, est.cdfs, bounds_prob))
                        [] bound = "upper" ->
                             df_setitem("max", upper_lims(supports, est.cdfs, bounds_prob))
                        [] bound = "mle" ->
                             df_setitem("mle", mles(supports, est.cdfs))
                        [] OTHER -> df

Inputs == <<supports, bounds_prob, bound_type, kwargs, reservoir>>
\* the state of a simulation run, which the bound functions do not touch
Simulation == <<model_blocks, pending, simulated, requested, d, locals>>

BayesBounds ==
    /\ \E bound \in BoundKinds : bayes_bounds(bound)
    /\ UNCHANGED <<Inputs, Simulation, source>>

(***************************************************************************)
(* The estimators called on their own.                                     *)
(***************************************************************************)
BayesBoundsBinomial ==
    /\ bound_type = "binomial"
    /\ LET est == bayes_bounds_binomial(supports, kwargs.rvs, kwargs.ns_or_mus,
                                        kwargs.ps_or_sigmas, kwargs.prior_pdf)
       IN  last' = Called("bayes_bounds_binomial", "none", est.err, est.cdfs)
    /\ UNCHANGED <<Inputs, Simulation, source, df>>

BayesBoundsNormal ==
    /\ bound_type = "normal"
    /\ LET est == bayes_bounds_normal(supports, kwargs.rvs, kwargs.ns_or_mus,
                                      kwargs.ps_or_sigmas)
       IN  last' = Called("bayes_bounds_normal", "none", est.err, est.cdfs)
    /\ UNCHANGED <<Inputs, Simulation, source, df>>

BayesBoundsSkewNormal ==
    /\ bound_type = "skew_normal"
    /\ LET est == bayes_bounds_skew_normal(supports, kwargs.rvs, kwargs.ns_or_mus,
                                           kwargs.ps_or_sigmas, kwargs.alphas)
       IN  last' = Called("bayes_bounds_skew_normal", "none", est.err, est.cdfs)
    /\ UNCHANGED <<Inputs, Simulation, source, df>>

(***************************************************************************)
(* bayes_bounds_priors                                                     *)
(***************************************************************************)
\* the configuration the prior builder is called with: one prior dimension
\* (in_dim) read from reservoir column 1, two filter dimensions read from
\* reservoir columns 1 and 2
prior_data_cols == <<1>>
filter_data_cols == <<1, 2>>
filter_dims_min == <<1, 1>>
filter_dims_max == <<1, 0>>

\* prior_data_filter keeping a row that passes some filter, not every filter
prior_data_filter_any(rows, cols, dims, ge) ==
    [r \in 1..Len(rows) |->
        \E j \in 1..ZipLen(cols, dims) :
            IF ge THEN rows[r][cols[j]] >= dims[j] ELSE rows[r][cols[j]] <= dims[j]]

\* prior_data_filter after the loop over zip(filter_data_cols, filter_dims):
\* row r passes if every zipped filter holds (ge: >= the minimum, else <= the
\* maximum)
prior_data_filter(rows, cols, dims, ge) ==
    [r \in 1..Len(rows) |->
        \A j \in 1..ZipLen(cols, dims) :
            IF ge THEN rows[r][cols[j]] >= dims[j] ELSE rows[r][cols[j]] <= dims[j]]

\* reservoir[:, prior_data_col][prior_data_filter]
RECURSIVE Masked(_, _, _, _)
Masked(rows, col, mask, r) ==
    IF r = 0 THEN <<>>
    ELSE IF mask[r] THEN Append(Masked(rows, col, mask, r - 1), rows[r][col])
    ELSE Masked(rows, col, mask, r - 1)

\* the prior_dict one of the two loops builds
prior_dict(rows, dims, ge) ==
    LET mask == prior_data_filter(rows, filter_data_cols, dims, ge)
        prior_data == Masked(rows, prior_data_cols[1], mask, Len(rows))
    IN  [in_dim |-> rv_histogram(np_histogram(prior_data))]

\* bayes_bounds_priors assigning (=) where the code extends (+=)
bayes_bounds_priors_assign(rows) ==
    /\ source' = [source EXCEPT
                    !.prior_PDFs_LB = <<prior_dict(rows, filter_dims_min, TRUE)>>,
                    !.prior_PDFs_UB = <<prior_dict(rows, filter_dims_max, FALSE)>>]
    /\ last' = Called("bayes_bounds_priors", "none", "none", <<>>)
    /\ df' = df

bayes_bounds_priors(rows) ==
    /\ source' = [source EXCEPT
                    !.prior_PDFs_LB = Append(@, prior_dict(rows, filter_dims_min, TRUE)),
                    !.prior_PDFs_UB = Append(@, prior_dict(rows, filter_dims_max, FALSE))]
    /\ last' = Called("bayes_bounds_priors", "none", "none", <<>>)
    /\ df' = df

\* the priors of the batches are built once each, in batch order:
\* reservoir[b + 1] is the reservoir of batch b
BayesBoundsPriors ==
    /\ Len(source.prior_PDFs_LB) < Len(reservoir)
    /\ bayes_bounds_priors(reservoir[Len(source.prior_PDFs_LB) + 1])
    /\ UNCHANGED <<Inputs, Simulation>>

(***************************************************************************)
(* bayes_bounds_batched                                                    *)
(***************************************************************************)
BatchedBoundValid(bound) == bound \in {"upper", "lower", "mle"}
BatchedBoundTypeValid(btype) == btype \in {"binomial"}

\* Python compares lists lexicographically
ListLess(a, b) ==
    \E i \in 1..Len(b) :
        /\ \A j \in 1..(i - 1) : j <= Len(a) /\ a[j] = b[j]
        /\ (i > Len(a) \/ (i <= Len(a) /\ a[i] < b[i]))

\* max(a, b) and min(a, b) of two lists: b only if it is strictly greater
\* (smaller) than a, as lists
\* max(...) replaced by its first argument, the prior-based list
py_max_prior_only(a, b) == a

py_max(a, b) == IF ListLess(a, b) THEN b ELSE a
py_min(a, b) == IF ListLess(b, a) THEN b ELSE a

\* a cell of a column created by writing other rows
NaNCell == -1

\* df_loc_set blanking the rows of the other batches
df_loc_set_blanking(column, batch, values) ==
    [r \in 1..df.index |->
        IF r > batch * source.batch_size /\ r <= (batch + 1) * source.batch_size
        THEN values[r - batch * source.batch_size]
        ELSE NaNCell]

\* df.loc[batch * batch_size : (batch + 1) * batch_size - 1, column] = values
df_loc_set(column, batch, values) ==
    [r \in 1..df.index |->
        IF r > batch * source.batch_size /\ r <= (batch + 1) * source.batch_size
        THEN values[r - batch * source.batch_size]
        ELSE IF column = <<>> THEN NaNCell ELSE column[r]]

\* the lookup taking the most recent prior ([-1]) instead of the batch's
prior_pdfs_latest(stored, batch) == stored[Len(stored)]

\* prior_pdfs = source.prior_PDFs_UB[batch] / source.prior_PDFs_LB[batch]
prior_pdfs(stored, batch) == stored[batch + 1]

bayes_bounds_batched(batch, bound) ==
    LET stored == IF bound = "upper" THEN source.prior_PDFs_UB ELSE source.prior_PDFs_LB
        failed(err) == /\ last' = [Called("bayes_bounds_batched", bound, err, <<>>)
                                      EXCEPT !.batch = batch]
                       /\ df' = df
    IN  IF ~BatchedBoundValid(bound) \/ ~BatchedBoundTypeValid(bound_type)
        THEN failed("AssertionError")
        ELSE IF bound \in {"upper", "lower"} /\ batch >= Len(stored)
        THEN failed("IndexError")
        ELSE IF bound \notin {"upper", "lower"}
        THEN failed("UnboundLocalError")
        ELSE
        \E with_prior \in {bayes_bounds_binomial(supports, kwargs.rvs, kwargs.ns_or_mus,
                              kwargs.ps_or_sigmas, <<prior_pdfs(stored, batch).in_dim>>)},
           no_prior \in {bayes_bounds_binomial(supports, kwargs.rvs, kwargs.ns_or_mus,
                              kwargs.ps_or_sigmas, <<>>)} :
            IF with_prior.err # "none"
            THEN failed(with_prior.err)
            ELSE /\ last' = [Called("bayes_bounds_batched", bound, "none", with_prior.cdfs)
                                EXCEPT !.batch = batch,
                                       !.cdfs_no_prior = no_prior.cdfs]
                 /\ df' = IF bound = "lower"
                          THEN [df EXCEPT !.min = df_loc_set(@, batch,
                                    py_max(lower_lims(supports, with_prior.cdfs, bounds_prob),
                                           lower_lims(supports, no_prior.cdfs, bounds_prob)))]
                          ELSE [df EXCEPT !.max = df_loc_set(@, batch,
                                    py_min(upper_lims(supports, with_prior.cdfs, bounds_prob),
                                           upper_lims(supports, no_prior.cdfs, bounds_prob)))]

\* the batches of a dataframe: its rows in runs of batch_size
Batches == 0..((df.index \div source.batch_size) - 1)

BayesBoundsBatched ==
    /\ \E batch \in Batches, bound \in BoundKinds : bayes_bounds_batched(batch, bound)
    /\ UNCHANGED <<Inputs, Simulation, source>>

\* the binomial estimator called with the prior built for the lower bound
BayesBoundsBinomialPrior ==
    /\ bound_type = "binomial"
    /\ Len(source.prior_PDFs_LB) > 0
    /\ LET est == bayes_bounds_binomial(supports, kwargs.rvs, kwargs.ns_or_mus,
                      kwargs.ps_or_sigmas, <<source.prior_PDFs_LB[1].in_dim>>)
       IN  last' = Called("bayes_bounds_binomial", "none", est.err, est.cdfs)
    /\ UNCHANGED <<Inputs, Simulation, source, df>>

\* reservoir values of the prior dimension, and of the filter dimension
ReservoirValues == 0..2
FilterValues == {0, 1}
ReservoirRows == ReservoirValues \X FilterValues
RowOrder(a, b) == a[1] < b[1] \/ (a[1] = b[1] /\ a[2] <= b[2])
\* the order of the rows does not matter to a histogram: take them sorted
Reservoirs ==
    {r \in [1..ResRows -> ReservoirRows] :
        \A i \in 1..(ResRows - 1) : RowOrder(r[i], r[i + 1])}

\* a batch of a binomial block; the observed counts of successive events
\* are k, k + dk, ...
InitBatched ==
    /\ \E lo \in 0..MaxLo, k \in 0..SupLen, dk \in {0, 1} :
        /\ supports = SupportsFrom(lo)
        /\ bound_type = "binomial"
        /\ kwargs = [rvs |-> [e \in Events |-> [i \in 1..SupLen |-> k + (e - 1) * dk]],
                     ns_or_mus |-> SupportsFrom(lo),
                     ps_or_sigmas |-> Full(1, NEvents, SupLen),
                     alphas |-> <<>>,
                     prior_pdf |-> <<>>]
    /\ bounds_prob \in {Prob(1), Prob(PDen - 1)}
    /\ reservoir \in {<<rows>> : rows \in Reservoirs}
    /\ source = NoPriors
    /\ df = NoColumns
    /\ last = NoCall
    /\ NoSimulation

\* several batches of one binomial block: batch b has the reservoir
\* BatchReservoir(v) of its own, one row of which passes the lower filters
\* when v >= 1, the others the upper filters when v >= 1
NBatches == 2
BatchReservoir(v) ==
    [r \in 1..ResRows |-> IF r = 1 THEN <<v, 1>> ELSE <<2 - v, 0>>]

InitBatches ==
    /\ supports = SupportsFrom(0)
    /\ bound_type = "binomial"
    /\ kwargs = [rvs |-> Full(1, NEvents, SupLen),
                 ns_or_mus |-> SupportsFrom(0),
                 ps_or_sigmas |-> Full(1, NEvents, SupLen),
                 alphas |-> <<>>,
                 prior_pdf |-> <<>>]
    /\ bounds_prob = Prob(PDen - 1)
    /\ reservoir \in [1..NBatches -> {BatchReservoir(v) : v \in ReservoirValues}]
    /\ source = NoPriors
    /\ df = [NoColumns EXCEPT !.index = NBatches * NEvents]
    /\ last = NoCall
    /\ NoSimulation

(***************************************************************************)
(* Simulation: the block chains of the sources and the quanta-splitting    *)
(* block of nest/lxe_blocks/quanta_splitting.py.                           *)
(***************************************************************************)
nestERSource_model_blocks ==
    <<"FixedShapeEnergySpectrum", "MakePhotonsElectronER", "DetectPhotons",
      "MakeS1Photoelectrons", "DetectS1Photoelectrons", "MakeS1",
      "DetectElectrons", "MakeS2Photons", "DetectS2Photons",
      "MakeS2Photoelectrons", "MakeS2">>
nestNRSource_model_blocks ==
    <<"FixedShapeEnergySpectrum", "MakePhotonsElectronsNR", "DetectPhotons",
      "MakeS1Photoelectrons", "DetectS1Photoelectrons", "MakeS1",
      "DetectElectrons", "MakeS2Photons", "DetectS2Photons",
      "MakeS2Photoelectrons", "MakeS2">>
defaultERSource_model_blocks ==
    <<"FixedShapeEnergySpectrum", "MakeERQuanta",
      "MakePhotonsElectronsBetaBinomial", "DetectPhotons",
      "MakeS1Photoelectrons", "MakeS1", "DetectElectrons", "MakeS2">>
Chains ==
    {nestERSource_model_blocks, nestNRSource_model_blocks,
     defaultERSource_model_blocks}

QuantaSplitting == {"MakePhotonsElectronsNR", "MakePhotonsElectronER"}
is_ER(block) == block = "MakePhotonsElectronER"

\* the functions a quanta-splitting block declares
MakePhotonsElectronsNR_model_functions ==
    <<"mean_yield_electron", "mean_yield_quanta", "alpha">>
MakePhotonsElectronER_model_functions ==
    SelectSeq(MakePhotonsElectronsNR_model_functions,
              LAMBDA x : x # "exciton_ratio") \o <<"fano_factor">>
model_functions(block) ==
    IF is_ER(block) THEN MakePhotonsElectronER_model_functions
    ELSE MakePhotonsElectronsNR_model_functions

\* One evaluation step of _simulate, in the order Python evaluates them:
\* reading a column of d, reading a local name, asking for a model function,
\* binding a local name, assigning a column of d.
Column(c) == [op |-> "column", arg |-> c]
Name(n) == [op |-> "name", arg |-> n]
Gimme(f) == [op |-> "gimme", arg |-> f]
Bind(n) == [op |-> "bind", arg |-> n]
SetColumn(c) == [op |-> "set", arg |-> c]

simulate_ER ==
    <<Column("energy"), Gimme("mean_yield_electron"), Bind("nel"),
      Column("energy"), Name("nel"), Gimme("mean_yield_quanta"), Bind("nq"),
      Name("nq"), Gimme("fano_factor"), Bind("fano"),
      Name("nq"), Name("fano"), Name("nq"), Bind("nq_actual_temp"),
      Name("nq_actual_temp"), Bind("nq_actual"),
      Column("energy"), Gimme("alpha"), Bind("alf"),
      Name("nq_actual"), Name("alf"), SetColumn("ions_produced"),
      Name("nq_actual"), Column("ions_produced"), Bind("nex")>>
simulate_NR ==
    <<Column("energy"), Gimme("mean_yield_electron"), Bind("nel"),
      Column("energy"), Gimme("mean_yield_quanta"), Bind("nq"),
      Name("nel"), Name("nq"), Gimme("alpha"), Bind("alf"),
      Name("nq"), Name("alf"), Bind("ni_temp"),
      Name("ni_temp"), SetColumn("ions_produced"),
      Name("nel"), Name("nq"), Gimme("exciton_ratio"), Bind("ex_ratio"),
      Name("nq"), Name("alf"), Name("ex_ratio"), Bind("nex_temp"),
      Name("nex_temp"), Bind("n_ex"),
      Column("ion_produced"), Name("n_ex"), Bind("nq_actual")>>
simulate_common ==
    <<Name("nel"), Name("nq"), Column("energy"), Gimme("recomb_prob"),
      Bind("recomb_p"),
      Name("nq"), Gimme("skewness"), Bind("skew"),
      Name("nel"), Name("nq"), Column("energy"), Column("ion_produced"),
      Gimme("variance"), Bind("var"),
      Name("nq"), Gimme("width_correction"), Bind("width_corr"),
      Name("nel"), Name("nq"), Column("energy"), Column("ion_produced"),
      Gimme("mu_correction"), Bind("mu_corr"),
      Name("skewness"), Name("recombP"), Column("ion_produced"),
      Name("muCorrection"), Name("Variance"), Name("widthCorrection"),
      Bind("el_prod_temp1"),
      Name("el_prod_temp1"), Bind("el_prod_temp2"),
      Name("el_prod_temp2"), Column("ions_produced"),
      SetColumn("electrons_produced"),
      Name("nq_actual"), Column("electrons_produced"), Bind("ph_prod_temp"),
      Name("ph_prod_temp"), Name("n_ex"), SetColumn("photons_produced")>>
simulate_steps(block) ==
    (IF is_ER(block) THEN simulate_ER ELSE simulate_NR) \o simulate_common

\* Block.gimme_numpy: the block hands out the functions it declared, a
\* request for any other function is a configuration error
gimme_numpy(block, fname) ==
    IF \E i \in 1..Len(model_functions(block)) : model_functions(block)[i] = fname
    THEN "none" ELSE "ConfigurationError"

\* the exception a step raises, "none" when it goes through; columns and
\* names are the columns of d and the local names that exist at the step
Raises(block, columns, names, step) ==
    CASE step.op = "gimme" -> gimme_numpy(block, step.arg)
      [] step.op = "column" ->
            IF step.arg \in columns THEN "none" ELSE "KeyError"
      [] step.op = "name" ->
            IF step.arg \in names THEN "none" ELSE "NameError"
      [] OTHER -> "none"

\* runs the steps from step i on: the exception that ended the run, the
\* columns and local names that exist at its end and the functions asked for
RECURSIVE run_steps(_, _, _, _, _, _)
run_steps(block, steps, i, columns, names, asked) ==
    IF i > Len(steps)
    THEN [err |-> "none", columns |-> columns, names |-> names,
          asked |-> asked]
    ELSE LET step == steps[i]
             now == IF step.op = "gimme" THEN Append(asked, step.arg)
                    ELSE asked
             err == Raises(block, columns, names, step)
         IN  IF err # "none"
             THEN [err |-> err, columns |-> columns, names |-> names,
                   asked |-> now]
             ELSE run_steps(block, steps, i + 1,
                      IF step.op = "set" THEN columns \cup {step.arg}
                      ELSE columns,
                      IF step.op = "bind" THEN names \cup {step.arg}
                      ELSE names,
                      now)

ColumnsOf(events) == {c \in DOMAIN events : events[c] # <<>>}
NonNegative(x) == IF x < 0 THEN x * 0 ELSE x

\* the values _simulate computes from its random draws
nq_actual(block, events, rvs) ==
    IF is_ER(block)
    THEN [e \in Events |-> NonNegative(rvs.nq_actual_temp[e])]
    ELSE [e \in Events |->
             events.ion_produced[e] + NonNegative(rvs.nex_temp[e])]
n_ex(rvs) == [e \in Events |-> NonNegative(rvs.nex_temp[e])]
ions_produced(block, rvs) ==
    IF is_ER(block) THEN [e \in Events |-> rvs.binom[e]]
    ELSE [e \in Events |-> NonNegative(rvs.ni_temp[e])]
electrons_produced(events, rvs) ==
    [e \in Events |->
        IF NonNegative(rvs.el_prod_temp1[e]) > events.ions_produced[e]
        THEN events.ions_produced[e]
        ELSE NonNegative(rvs.el_prod_temp1[e])]
photons_produced(block, events, rvs) ==
    [e \in Events |->
        LET ph_prod_temp ==
                nq_actual(block, events, rvs)[e] - events.electrons_produced[e]
        IN  IF ph_prod_temp < n_ex(rvs)[e] THEN n_ex(rvs)[e]
            ELSE ph_prod_temp]

\* d after the run that assigned the columns in assigned
simulate_assign(block, events, assigned, rvs) ==
    LET ions == IF "ions_produced" \in assigned
                THEN [events EXCEPT !.ions_produced = ions_produced(block, rvs)]
                ELSE events
        electrons == IF "electrons_produced" \in assigned
                     THEN [ions EXCEPT !.electrons_produced =
                                           electrons_produced(ions, rvs)]
                     ELSE ions
    IN  IF "photons_produced" \in assigned
        THEN [electrons EXCEPT !.photons_produced =
                                   photons_produced(block, electrons, rvs)]
        ELSE electrons

\* the quanta counts held in the local names the run has bound
simulate_bind(block, events, names, rvs) ==
    [name \in DOMAIN NoLocals |->
        IF name \notin names THEN <<>>
        ELSE IF name = "nq_actual" THEN nq_actual(block, events, rvs)
        ELSE IF name = "nex"
        THEN [e \in Events |->
                 nq_actual(block, events, rvs)[e] - events.ions_produced[e]]
        ELSE n_ex(rvs)]

\* the draws of one call: a normal or skew-normal draw is any integer near
\* the range and is made only when its line is reached, the binomial draw is
\* a number in 0..n
Draws == [Events -> -1..MaxQuanta]
DrawsOf(reached) == IF reached THEN Draws ELSE {[e \in Events |-> 0]}
BinomDraws(n) == {b \in [Events -> 0..MaxQuanta] : \A e \in Events : b[e] <= n[e]}

\* MakePhotonsElectronsNR._simulate(d), for the block and its ER subclass
simulate(block) ==
    LET run == run_steps(block, simulate_steps(block), 1, ColumnsOf(d), {}, <<>>)
        assigned == run.columns \ ColumnsOf(d)
    IN  /\ \E first \in Draws, second \in DrawsOf("nex_temp" \in run.names),
              third \in DrawsOf("electrons_produced" \in assigned) :
              \E binom \in (IF is_ER(block)
                            THEN BinomDraws([e \in Events |-> NonNegative(first[e])])
                            ELSE {first}) :
                 LET rvs == [nq_actual_temp |-> first, binom |-> binom,
                             ni_temp |-> first, nex_temp |-> second,
                             el_prod_temp1 |-> third]
                 IN  /\ d' = simulate_assign(block, d, assigned, rvs)
                     /\ locals' = simulate_bind(block, d', run.names, rvs)
        /\ requested' = requested \o run.asked
        /\ last' = Called("simulate", "none", run.err, <<>>)

\* The source simulating: the blocks of the chain run in order, each fed the
\* events the previous one left; an exception of a block ends the simulation.
Simulating ==
    /\ pending <= Len(model_blocks)
    /\ last.err = "none"
Stage == model_blocks[pending]
AdvanceNever(err) == pending
Advance(err) == IF err = "none" THEN pending + 1 ELSE pending
Invoked(block) ==
    /\ simulated' = Append(simulated, block)
    /\ pending' = Advance(last'.err)
    /\ UNCHANGED <<Inputs, source, df, model_blocks>>

\* the energy spectrum block draws the energies of the events
SimulateEnergySpectrum ==
    /\ Simulating
    /\ Stage = "FixedShapeEnergySpectrum"
    /\ \E energy \in [Events -> 1..MaxEnergy] : d' = [d EXCEPT !.energy = energy]
    /\ last' = Called("simulate", "none", "none", <<>>)
    /\ requested' = requested
    /\ locals' = locals
    /\ Invoked(Stage)

SimulateQuantaSplitting ==
    /\ Simulating
    /\ Stage \in QuantaSplitting
    /\ simulate(Stage)
    /\ Invoked(Stage)

\* every other block: its columns are not part of this model
SimulateBlock ==
    /\ Simulating
    /\ Stage \notin QuantaSplitting \cup {"FixedShapeEnergySpectrum"}
    /\ last' = Called("simulate", "none", "none", <<>>)
    /\ UNCHANGED <<d, requested, locals>>
    /\ Invoked(Stage)

InitSimulate ==
    /\ supports = SupportsFrom(0)
    /\ bound_type = "binomial"
    /\ kwargs = [rvs |-> Full(1, NEvents, SupLen),
                 ns_or_mus |-> SupportsFrom(0),
                 ps_or_sigmas |-> Full(1, NEvents, SupLen),
                 alphas |-> <<>>,
                 prior_pdf |-> <<>>]
    /\ bounds_prob = Prob(PDen - 1)
    /\ reservoir = <<>>
    /\ source = NoPriors
    /\ df = NoColumns
    /\ last = NoCall
    /\ model_blocks \in Chains
    /\ pending = 1
    /\ simulated = <<>>
    /\ requested = <<>>
    /\ d = NoEvents
    /\ locals = NoLocals

(***************************************************************************)
(* Specifications.  Spec: one block of any distribution kind calling       *)
(* bayes_bounds and the estimators, no priors built.  SpecBatched: one     *)
(* batch of a binomial block, its priors built from the reservoir.         *)
(* SpecBatches: several batches, the priors of each built once in batch    *)
(* order.  SpecSimulate: a source simulating events through its chain.     *)
(***************************************************************************)
Next ==
    \/ BayesBounds
    \/ BayesBoundsBatched
    \/ BayesBoundsBinomial
    \/ BayesBoundsNormal
    \/ BayesBoundsSkewNormal

Spec == Init /\ [][Next]_vars

NextBatched ==
    \/ BayesBoundsPriors
    \/ BayesBoundsBatched
    \/ BayesBoundsBinomialPrior

SpecBatched == InitBatched /\ [][NextBatched]_vars

NextBatches ==
    \/ BayesBoundsPriors
    \/ BayesBoundsBatched
SpecBatches == InitBatches /\ [][NextBatches]_vars

NextSimulate ==
    \/ SimulateEnergySpectrum
    \/ SimulateQuantaSplitting
    \/ SimulateBlock
SpecSimulate == InitSimulate /\ [][NextSimulate]_vars

(***************************************************************************)
(* Vocabulary of the claims.                                               *)
(***************************************************************************)
\* a <= b on floats
Le(a, b) == a.d > 0 /\ b.d > 0 /\ ~Lt(b, a)
One == [n |-> 1, d |-> 1]
Max2(a, b) == IF a >= b THEN a ELSE b
Min2(a, b) == IF a <= b THEN a ELSE b
Values(seq) == {seq[i] : i \in 1..Len(seq)}

OkCall(op) == last.op = op /\ last.err = "none"
EstimatorOps ==
    {"bayes_bounds_binomial", "bayes_bounds_normal", "bayes_bounds_skew_normal"}

\* every probability mass behind the CDF is a positive number
PositiveMasses(cdf) ==
    /\ \A i \in 1..Len(cdf) : ~IsNaN(cdf[i])
    /\ cdf[1].n > 0
    /\ \A i \in 2..Len(cdf) : cdf[i].n > cdf[i - 1].n

\* the three columns hold what bayes_bounds computes from the inputs as they are
AllThreeBounds ==
    /\ OkCall("bayes_bounds")
    /\ df.min # <<>> /\ df.mle # <<>> /\ df.max # <<>>

\* the prior and the prior-free estimate of the lower and upper bound of
\* event e, from the two CDFs the last batched call computed
PriorLower(e) == lower_lim(supports[e], last.cdfs[e], bounds_prob)
NoPriorLower(e) == lower_lim(supports[e], last.cdfs_no_prior[e], bounds_prob)
PriorUpper(e) == upper_lim(supports[e], last.cdfs[e], bounds_prob)
NoPriorUpper(e) == upper_lim(supports[e], last.cdfs_no_prior[e], bounds_prob)

(***************************************************************************)
(* C1: in the batched computation every event's written lower bound is the *)
(* larger of its prior and prior-free lower estimates, every written upper *)
(* bound the smaller of its two upper estimates; so the written bounds are *)
(* never looser than the prior-free ones (stated for a batch all of whose  *)
(* CDFs are numbers).                                                      *)
(***************************************************************************)
NumericCdfs ==
    \A e \in Events : ~IsNaN(last.cdfs[e][1]) /\ ~IsNaN(last.cdfs_no_prior[e][1])

C1_CombinedIsPerEventExtreme ==
    (OkCall("bayes_bounds_batched") /\ NumericCdfs) =>
        \A e \in Events :
            /\ last.bound = "lower" =>
                   /\ df.min[e] = Max2(PriorLower(e), NoPriorLower(e))
                   /\ df.min[e] >= NoPriorLower(e)
            /\ last.bound = "upper" =>
                   /\ df.max[e] = Min2(PriorUpper(e), NoPriorUpper(e))
                   /\ df.max[e] <= NoPriorUpper(e)

(***************************************************************************)
(* C2: lower_bound <= most_likely_bound <= upper_bound for every event,    *)
(* the three computed from the same CDF, support and credible probability  *)
(* in (0, 1).                                                              *)
(***************************************************************************)
C2_BoundsOrdered ==
    (AllThreeBounds /\ 0 < bounds_prob.n /\ bounds_prob.n < bounds_prob.d) =>
        \A e \in Events : df.min[e] <= df.mle[e] /\ df.mle[e] <= df.max[e]

\* C2 as amended: with a credible probability in (0, 1/2] the lower and the
\* most likely bound are at most the upper bound, and the lower bound is at
\* most the most likely one for an event all of whose masses are positive
C2_BoundsOrderedUpToHalf ==
    (AllThreeBounds /\ 0 < bounds_prob.n /\ 2 * bounds_prob.n <= bounds_prob.d) =>
        \A e \in Events :
            /\ df.min[e] <= df.max[e]
            /\ df.mle[e] <= df.max[e]
            /\ PositiveMasses(last.cdfs[e]) => df.min[e] <= df.mle[e]

C2_Witness ==
    /\ AllThreeBounds
    /\ 0 < bounds_prob.n /\ 2 * bounds_prob.n <= bounds_prob.d
    /\ \E e \in Events :
        /\ PositiveMasses(last.cdfs[e])
        /\ df.min[e] < df.mle[e] /\ df.mle[e] < df.max[e]

(***************************************************************************)
(* C3: the CDF an estimator returns for an event has the length of that    *)
(* event's support, never decreases and ends in 1, for every valid input   *)
(* (a support that holds a point of positive binomial mass, priors built   *)
(* from non-empty samples), with or without a prior.                       *)
(***************************************************************************)
SupportCoversMass(e) ==
    bound_type = "binomial" =>
        \E i \in 1..Len(supports[e]) :
            binom_pmf(kwargs.rvs[e][i], kwargs.ns_or_mus[e][i], kwargs.ps_or_sigmas[e][i]) > 0

\* every stored prior is a histogram of a non-empty sample
PriorsHaveDensities ==
    \A pdfs \in Values(source.prior_PDFs_LB) \cup Values(source.prior_PDFs_UB) :
        \A i \in 1..HistBins : pdfs.in_dim.hpdf[i] # NaNMass

ValidInput(e) == SupportCoversMass(e) /\ PriorsHaveDensities

C3_CdfWellFormed ==
    (last.op \in EstimatorOps \cup {"bayes_bounds_batched"} /\ last.err = "none") =>
        \A e \in 1..Len(last.cdfs) :
            ValidInput(e) =>
                /\ Len(last.cdfs[e]) = Len(supports[e])
                /\ \A i \in 2..Len(last.cdfs[e]) : Le(last.cdfs[e][i - 1], last.cdfs[e][i])
                /\ Le(last.cdfs[e][Len(last.cdfs[e])], One)
                /\ Le(One, last.cdfs[e][Len(last.cdfs[e])])

(***************************************************************************)
(* C4: the lower bound of an event is the largest support value whose CDF  *)
(* entry is strictly below the credible probability, and the first support *)
(* value when there is no such point.                                      *)
(***************************************************************************)
BelowProb(e) ==
    {supports[e][i] : i \in {j \in 1..Len(supports[e]) : Lt(last.cdfs[e][j], bounds_prob)}}

C4_LowerBound ==
    (OkCall("bayes_bounds") /\ last.bound = "lower") =>
        \A e \in Events :
            df.min[e] = IF BelowProb(e) # {} THEN SetMax(BelowProb(e))
                        ELSE SetMin(Values(supports[e]))

C4_Witness ==
    /\ OkCall("bayes_bounds") /\ last.bound = "lower"
    /\ \E e \in Events :
        /\ Cardinality(BelowProb(e)) >= 2
        /\ Cardinality(BelowProb(e)) < Len(supports[e])
    /\ \E e \in Events : BelowProb(e) = {}

(***************************************************************************)
(* C5: the upper bound of an event is the smallest support value whose CDF *)
(* entry strictly exceeds 1 - credible probability, and the last support   *)
(* value when there is no such point.                                      *)
(***************************************************************************)
AboveTail(e) ==
    {supports[e][i] : i \in {j \in 1..Len(supports[e]) :
                                Lt(OneMinus(bounds_prob), last.cdfs[e][j])}}

C5_UpperBound ==
    (OkCall("bayes_bounds") /\ last.bound = "upper") =>
        \A e \in Events :
            df.max[e] = IF AboveTail(e) # {} THEN SetMin(AboveTail(e))
                        ELSE SetMax(Values(supports[e]))

C5_Witness ==
    /\ OkCall("bayes_bounds") /\ last.bound = "upper"
    /\ \E e \in Events :
        /\ Cardinality(AboveTail(e)) >= 2
        /\ Cardinality(AboveTail(e)) < Len(supports[e])

(***************************************************************************)
(* C6: with a credible probability at or above the largest value of an     *)
(* event's CDF, the lower bound is the smallest element of the support and *)
(* the upper bound the largest.                                            *)
(***************************************************************************)
ProbAtLeastCdf(e) ==
    \A i \in 1..Len(last.cdfs[e]) : Le(last.cdfs[e][i], bounds_prob)

C6_FallbackAtHighProb ==
    OkCall("bayes_bounds") =>
        \A e \in Events :
            ProbAtLeastCdf(e) =>
                /\ last.bound = "lower" => df.min[e] = SetMin(Values(supports[e]))
                /\ last.bound = "upper" => df.max[e] = SetMax(Values(supports[e]))

\* C6 as amended: with a credible probability at or below the smallest
\* value of an event's CDF the lower bound is the smallest element of the
\* support; with 1 - credible probability at or above the largest value of
\* the CDF the upper bound is the largest element of the support
ProbAtMostCdf(e) ==
    \A i \in 1..Len(last.cdfs[e]) : Le(bounds_prob, last.cdfs[e][i])
TailAtLeastCdf(e) ==
    \A i \in 1..Len(last.cdfs[e]) : Le(last.cdfs[e][i], OneMinus(bounds_prob))

C6_FallbackAtLowProb ==
    OkCall("bayes_bounds") =>
        \A e \in Events :
            /\ (last.bound = "lower" /\ ProbAtMostCdf(e)) =>
                   df.min[e] = SetMin(Values(supports[e]))
            /\ (last.bound = "upper" /\ TailAtLeastCdf(e)) =>
                   df.max[e] = SetMax(Values(supports[e]))

C6_Witness ==
    /\ OkCall("bayes_bounds") /\ last.bound = "lower"
    /\ bounds_prob.n > 0
    /\ \E e \in Events : ProbAtMostCdf(e) /\ Lt(last.cdfs[e][1], One)

(***************************************************************************)
(* C7: bayes_bounds accepts each of binomial, normal and skew-normal with  *)
(* each of lower, upper and mle: given parameters of the supports' shape,  *)
(* the call writes a bound for every event and raises nothing.             *)
(***************************************************************************)
SpecKinds == {"binomial", "normal", "skew_normal"}
SpecBounds == {"lower", "upper", "mle"}

ParameterArrays ==
    {kwargs.rvs, kwargs.ns_or_mus, kwargs.ps_or_sigmas}
        \cup (IF bound_type = "skew_normal" THEN {kwargs.alphas} ELSE {})
ShapesAgree == \A a \in ParameterArrays : np_shape(a) = np_shape(supports)

WrittenColumn ==
    IF last.bound = "lower" THEN df.min
    ELSE IF last.bound = "upper" THEN df.max ELSE df.mle

C7_AllKindsAccepted ==
    (/\ last.op = "bayes_bounds"
     /\ bound_type \in SpecKinds
     /\ last.bound \in SpecBounds
     /\ ShapesAgree) =>
        /\ last.err = "none"
        /\ Len(WrittenColumn) = NEvents

(***************************************************************************)
(* C8: an estimator called with a parameter array (the skew parameter      *)
(* included) whose shape differs from the supports' raises an error and    *)
(* returns no CDFs.                                                        *)
(***************************************************************************)
C8_ShapeMismatchRaises ==
    (last.op \in EstimatorOps /\ ~ShapesAgree) =>
        (last.err # "none" /\ last.cdfs = <<>>)

(***************************************************************************)
(* C9: a call of bayes_bounds or bayes_bounds_batched whose bound is none  *)
(* of lower, upper, mle, or whose distribution kind is none of binomial,   *)
(* normal, skew-normal, fails on the assertions: no CDF is computed and    *)
(* the three bound columns stay as they were.                              *)
(***************************************************************************)
BoundOps == {"bayes_bounds", "bayes_bounds_batched"}
Unsupported(call) == call.bound \notin SpecBounds \/ bound_type \notin SpecKinds

C9_InvalidCallFailsFast ==
    [][(last'.op \in BoundOps /\ Unsupported(last')) =>
          /\ last'.err = "AssertionError"
          /\ last'.cdfs = <<>>
          /\ last'.cdfs_no_prior = <<>>
          /\ df' = df]_vars

C9_Witness ==
    /\ last.op \in BoundOps
    /\ last.bound \notin SpecBounds
    /\ bound_type \in SpecKinds
    /\ last.err = "AssertionError"
    /\ df.min # <<>> /\ df.max # <<>>

(***************************************************************************)
(* C10: the binomial estimator multiplies the masses of an event by 1 when *)
(* no prior is given or the prior's densities over the event's support sum *)
(* to 0, and by the prior's density at each support point in every other   *)
(* case; an event of the first kind gets exactly the prior-free CDF.       *)
(***************************************************************************)
UsedPrior ==
    IF last.bound = "upper" THEN source.prior_PDFs_UB[1].in_dim
    ELSE source.prior_PDFs_LB[1].in_dim

Densities(e) ==
    Settled([i \in 1..Len(supports[e]) |-> rv_pdf(UsedPrior, supports[e][i])])
Masses(e) ==
    Settled([i \in 1..Len(supports[e]) |->
        binom_pmf(kwargs.rvs[e][i], kwargs.ns_or_mus[e][i], kwargs.ps_or_sigmas[e][i])])
Weighted(e) ==
    Settled([i \in 1..Len(supports[e]) |-> MassMul(Masses(e)[i], Densities(e)[i])])
ZeroDensity(e) == \A i \in 1..Len(supports[e]) : Densities(e)[i] = 0

WithPriorCall ==
    /\ last.op \in {"bayes_bounds_binomial", "bayes_bounds_batched"}
    /\ last.err = "none"

C10_UniformFactorIffZeroDensity ==
    WithPriorCall =>
        \A e \in Events :
            /\ last.cdfs[e] = cumsum_normalised(IF ZeroDensity(e) THEN Masses(e)
                                                ELSE Weighted(e))
            /\ last.op = "bayes_bounds_batched" =>
                   /\ last.cdfs_no_prior[e] = cumsum_normalised(Masses(e))
                   /\ ZeroDensity(e) => last.cdfs[e] = last.cdfs_no_prior[e]

C10_Witness ==
    /\ OkCall("bayes_bounds_batched")
    /\ \E e \in Events : ZeroDensity(e) /\ ~IsNaN(last.cdfs[e][1])
    /\ \E e \in Events :
        /\ ~ZeroDensity(e)
        /\ \E i \in 1..Len(supports[e]) : Densities(e)[i] = 0
        /\ ~IsNaN(last.cdfs[e][1])
        /\ last.cdfs[e] # last.cdfs_no_prior[e]

(***************************************************************************)
(* C11: when the filter mask of the prior builder selects no reservoir     *)
(* row, the batched computation with that prior raises nothing and writes, *)
(* for every event, the prior-free estimate of the bound.                  *)
(***************************************************************************)
\* the mask the prior builder computed for the prior the last call used
UsedMask ==
    IF last.bound = "upper"
    THEN prior_data_filter(reservoir[1], filter_data_cols, filter_dims_max, FALSE)
    ELSE prior_data_filter(reservoir[1], filter_data_cols, filter_dims_min, TRUE)
MaskSelectsNothing == \A r \in 1..Len(UsedMask) : ~UsedMask[r]

BatchedAfterPriors ==
    /\ last.op = "bayes_bounds_batched"
    /\ last.bound \in {"lower", "upper"}
    /\ Len(source.prior_PDFs_LB) > 0

PassesLower(row) ==
    \A j \in 1..Len(filter_data_cols) : row[filter_data_cols[j]] >= filter_dims_min[j]
PassesUpper(row) ==
    \A j \in 1..Len(filter_data_cols) : row[filter_data_cols[j]] <= filter_dims_max[j]

RECURSIVE PriorValues(_, _)
PriorValues(rows, n) ==
    IF n = 0 THEN <<>>
    ELSE Append(PriorValues(rows, n - 1), rows[n][prior_data_cols[1]])

DensityOf(rows) == rv_histogram(np_histogram(PriorValues(rows, Len(rows))))

AppendsOne(before, after) ==
    /\ Len(after) = Len(before) + 1
    /\ SubSeq(after, 1, Len(before)) = before

OwnPrior(b, bound) ==
    IF bound = "upper" THEN DensityOf(SelectSeq(reservoir[b + 1], PassesUpper))
    ELSE DensityOf(SelectSeq(reservoir[b + 1], PassesLower))

CdfsWith(density) ==
    bayes_bounds_binomial(supports, kwargs.rvs, kwargs.ns_or_mus,
                          kwargs.ps_or_sigmas, <<density>>).cdfs

QuantaSplit ==
    /\ simulated # <<>>
    /\ simulated[Len(simulated)] \in QuantaSplitting
HasColumn(c) == d[c] # <<>>
Done == pending = Len(model_blocks) + 1
IsPrefix(s, t) ==
    /\ Len(s) <= Len(t)
    /\ \A i \in 1..Len(s) : s[i] = t[i]

(***************************************************************************)
(* C15: after the quanta-splitting block has simulated, ER or NR, every    *)
(* event has ions_produced >= 0, electrons_produced >= 0,                  *)
(* photons_produced >= 0 and electrons_produced <= ions_produced.          *)
(***************************************************************************)
C15_QuantaWithinBounds ==
    QuantaSplit =>
        /\ HasColumn("ions_produced")
        /\ HasColumn("electrons_produced")
        /\ HasColumn("photons_produced")
        /\ \A e \in Events :
              /\ d.ions_produced[e] >= 0
              /\ d.electrons_produced[e] >= 0
              /\ d.photons_produced[e] >= 0
              /\ d.electrons_produced[e] <= d.ions_produced[e]

(***************************************************************************)
(* C16: a simulating source invokes the blocks of its chain in chain       *)
(* order, each once and none again, and is done exactly when the last      *)
(* block of the chain has run.                                             *)
(***************************************************************************)
C16_StagesInOrderOnce ==
    /\ IsPrefix(simulated, model_blocks)
    /\ pending = (IF last.err = "none" THEN Len(simulated) + 1
                  ELSE Len(simulated))
    /\ Done <=> simulated = model_blocks

\* a chain of several blocks has been simulated to its end
C16_Witness ==
    /\ Len(model_blocks) > 1
    /\ Done
    /\ simulated = model_blocks

(***************************************************************************)
(* C17: every model function the quanta-splitting block asks for by name   *)
(* while simulating is one of the functions the block declares, for        *)
(* MakePhotonsElectronsNR and for MakePhotonsElectronER.                   *)
(***************************************************************************)
C17_RequestsAreDeclared ==
    QuantaSplit =>
        \A i \in 1..Len(requested) :
            \E j \in 1..Len(model_functions(simulated[Len(simulated)])) :
                model_functions(simulated[Len(simulated)])[j] = requested[i]

(***************************************************************************)
(* C18: bayes_bounds is a pure function: it modifies none of its inputs    *)
(* (supports, parameters, event batch), and two calls with identical       *)
(* inputs give identical bounds.                                           *)
(***************************************************************************)
ColumnOf(bound) ==
    IF bound = "lower" THEN "min" ELSE IF bound = "upper" THEN "max" ELSE "mle"
SameBoundsAsBefore ==
    (/\ OkCall("bayes_bounds")
     /\ last'.err = "none"
     /\ last'.bound = last.bound) =>
        df'[ColumnOf(last'.bound)] = df[ColumnOf(last.bound)]
C19_BoundIsInSupport ==
    OkCall("bayes_bounds") =>
        \A e \in Events :
            supports[e] # <<>> =>
                /\ e \in DOMAIN WrittenColumn
                /\ WrittenColumn[e] \in Values(supports[e])

\* no entry of an event's CDF passes the threshold of the bound asked for
NoPointPasses(e) ==
    \/ last.bound = "lower" /\ BelowProb(e) = {}
    \/ last.bound = "upper" /\ AboveTail(e) = {}
\* the CDF of an event whose masses are all zero: 0/0 at every point
AllZeroMasses(e) == \A i \in 1..Len(last.cdfs[e]) : IsNaN(last.cdfs[e][i])

C19_Witness ==
    /\ OkCall("bayes_bounds")
    /\ \E e \in Events : NoPointPasses(e) /\ ~AllZeroMasses(e)
    /\ \E e \in Events : AllZeroMasses(e)

(***************************************************************************)
(* C20: bayes_bounds_batched for batch b writes only the rows              *)
(* b*batch_size .. (b+1)*batch_size-1 of the one column in_dim_min (lower) *)
(* or in_dim_max (upper); every other row of that column and every other   *)
(* column of the dataframe stay as they were.                              *)
(***************************************************************************)
\* row r of a column; a column that does not exist yet has no value anywhere
Cell(frame, column, r) ==
    IF frame[column] = <<>> THEN NaNCell ELSE frame[column][r]
\* the rows of batch b, counted from 1
RowsOf(b) == (b * source.batch_size + 1)..((b + 1) * source.batch_size)

C20_BatchWritesOwnRowsOnly ==
    [][last'.op = "bayes_bounds_batched" =>
          /\ \A column \in DOMAIN df \ {ColumnOf(last'.bound)} :
                df'[column] = df[column]
          /\ \A r \in (1..df.index) \ RowsOf(last'.batch) :
                Cell(df', ColumnOf(last'.bound), r) =
                    Cell(df, ColumnOf(last'.bound), r)]_vars

\* the last batch has been written into a column that holds the bounds of
\* the first batch, next to the other bound column
C20_Witness ==
    /\ OkCall("bayes_bounds_batched")
    /\ last.batch = NBatches - 1
    /\ df.min # <<>> /\ df.max # <<>>
    /\ \A r \in 1..df.index :
          Cell(df, ColumnOf(last.bound), r) # NaNCell

(***************************************************************************)
(* C21: every bound kind that passes the kind assertion of                 *)
(* bayes_bounds_batched (upper, lower, mle) leads to a completed call that *)
(* selects a prior for the kind and writes the bound column of the batch;  *)
(* no accepted kind ends in an error or with no column written.            *)
(***************************************************************************)
\* the last call was a batched call of an accepted kind, on a binomial
\* block, for a batch whose priors have been built
AcceptedBatchedCall ==
    /\ last.op = "bayes_bounds_batched"
    /\ BatchedBoundValid(last.bound)
    /\ BatchedBoundTypeValid(bound_type)
    /\ last.batch < Len(source.prior_PDFs_LB)
    /\ last.batch < Len(source.prior_PDFs_UB)

C21_AcceptedKindCompletes ==
    AcceptedBatchedCall =>
        /\ last.err = "none"
        /\ \A r \in RowsOf(last.batch) :
              Cell(df, ColumnOf(last.bound), r) # NaNCell

(***************************************************************************)
(* C22: after the quanta-splitting block has simulated, ER or NR, every    *)
(* event has photons_produced at least its number of excitons, and         *)
(* photons_produced + electrons_produced equal to the quanta actually      *)
(* produced, its ions plus its excitons.                                   *)
(***************************************************************************)
\* the excitons of the events: nex in the ER branch, n_ex in the NR branch
Excitons ==
    IF is_ER(simulated[Len(simulated)]) THEN locals.nex ELSE locals.n_ex

C22_QuantaConserved ==
    QuantaSplit =>
        /\ HasColumn("photons_produced")
        /\ HasColumn("electrons_produced")
        /\ HasColumn("ions_produced")
        /\ Excitons # <<>>
        /\ \A e \in Events :
              /\ d.photons_produced[e] >= Excitons[e]
              /\ d.photons_produced[e] + d.electrons_produced[e] =
                     d.ions_produced[e] + Excitons[e]

====
